---- MODULE Spec2Model ----
(***************************************************************************)
(* State-machine model of ContractImmunityLayer (policy gateway): the      *)
(* protected-contract registry, threat classification, freeze ledger and   *)
(* owner resolution.  One action per external function.  A transaction     *)
(* that ends in `revert` / a failed `require` leaves contract storage      *)
(* exactly as it was before the transaction (EVM semantics): only the      *)
(* outcome observed by the sender, kept in lastOp, records that it         *)
(* happened.                                                               *)
(***************************************************************************)
EXTENDS Integers, FiniteSets, Sequences, TLC

\* ---------------------------------------------------------------- bounds
MaxBlock == 3
MaxCount == 2
MaxThreats == 1
MaxDeposits == 2
MaxRequests == 1
MaxSeenCount == 5
MaxAnalyses == 1

\* ------------------------------------------------------- program constants
NONE == 0
LOW == 1
MEDIUM == 2
HIGH == 3
CRITICAL == 4
DefaultFreezeDuration == 30
MaxFreezeDuration == 1000
DefaultSuspiciousCallThreshold == 5
HighFrequencyLimit == 3
LargeValue == 10
MinProtectionLevel == 1
\* Variant: the upper end of the accepted range is one too high.
MaxProtectionLevelSix == MinProtectionLevel + 5

MaxProtectionLevel == 5
LargeWithdrawalMultiplier == 10

\* ------------------------------------------------------------ environment
Owner == "owner"
\* The address of the deployed gateway contract.
ImmunityLayer == "layer"
ZeroAddress == "zero"
EOAs == {"owner", "user"}
Contracts == {"attacker"}
Senders == EOAs \cup Contracts
Targets == {"bank"}
LevelInputs == {0, 3, 6}
DurationInputs == {0, 1}
Actions == {"execute", "revert", "simulate", "other"}

\* Payloads: name |-> <<length class, selector>>.  Length class 0 is empty
\* calldata, 2 is 1..3 bytes, 4 is at least 4 bytes.
\* "withdraw" is withdraw(1); "withdraw10" and "withdraw11" carry the amount.
Payloads == {"empty", "short", "withdraw", "withdraw10", "withdraw11", "deposit",
             "mint", "upgradeTo", "zeroSel"}

DataLength(data) == CASE data = "empty" -> 0 [] data = "short" -> 2 [] OTHER -> 4

Selector(data) ==
  CASE data \in {"withdraw", "withdraw10", "withdraw11"} -> "2e1a7d4d"
    [] data = "deposit"   -> "d0e30db0"
    [] data = "mint"      -> "40c10f19"
    [] data = "upgradeTo" -> "3659cfe6"
    [] data = "zeroSel"   -> "00000000"
    [] OTHER              -> "none"

\* The uint256 argument of a withdraw(uint256) payload.
Amount(data) ==
  CASE data = "withdraw10" -> 10
    [] data = "withdraw11" -> 11
    [] data = "withdraw"   -> 1
    [] OTHER               -> 0

vulnerableSigs == {"a9059cbb", "095ea7b3", "23b872dd", "40c10f19", "9dc29fac",
                   "42966c68", "79cc6790", "40e58ee5", "2e1a7d4d", "3ccfd60b"}
unsafeSigs == {"5c60da1b", "3659cfe6", "4f1ef286", "8f283970", "f851a440"}
adminSigs == {"f2fde38b", "8da5cb5b", "a6f9dae1", "3cebb823", "704b6c02",
              "40c10f19", "42966c68", "9dc29fac"}

VARIABLES protectedContracts, threatDetections, frozenTransactions,
          suspiciousAddressCount, lastInteractionBlock,
          totalThreatsDetected, totalThreatsMitigated, totalLossPrevented,
          freezeDuration, suspiciousCallThreshold, emergencyStop,
          blockNumber, lastOp,
          averageDepositAmount, depositCount, balances,
          analysisRequests,
          classified, counterRead, submitsInBlock,
          aiOracle, simulationResults,
          _status, pending

storage == <<protectedContracts, threatDetections, frozenTransactions,
             suspiciousAddressCount, lastInteractionBlock,
             totalThreatsDetected, totalThreatsMitigated, totalLossPrevented,
             freezeDuration, suspiciousCallThreshold, emergencyStop>>

\* BankingContract's deposit statistics and the oracle's request table.
ledger == <<averageDepositAmount, depositCount, balances>>
oracle == <<analysisRequests>>

\* The ThreatDetection that _detectThreats returned for the latest attempt
\* classified, with the attempt it was computed for.
\* counterRead: the value of the caller's counter that the latest attempt to
\* reach _detectStateManipulation found there.
\* submitsInBlock: per caller, the block of its latest protectedCall to a
\* protected target and how many such calls it has sent in that block.
probe == <<classified, counterRead, submitsInBlock>>

\* The gateway's oracle address and the simulation results it has received.
simulation == <<aiOracle, simulationResults>>

\* ReentrancyGuard's _status, and the attempt whose target call is under way.
reentrancy == <<_status, pending>>

vars == <<storage, blockNumber, lastOp, ledger, oracle, probe, simulation, reentrancy>>

NoId == [target |-> ZeroAddress, sender |-> ZeroAddress, data |-> "empty",
         value |-> 0, block |-> 0]

\* The default (all-zero) value a mapping returns for a key never written.
ContractProfile(p, l) == [isProtected |-> p, protectionLevel |-> l]

EmptyThreat == [suspiciousCaller |-> ZeroAddress, targetContract |-> ZeroAddress,
                originalCalldata |-> "empty", level |-> NONE, vulnType |-> "REENTRANCY",
                reason |-> "", blockNumber |-> 0, isMitigated |-> FALSE,
                mitigationResult |-> "", freezeUntilBlock |-> 0]

EmptyFrozen == [initiator |-> ZeroAddress, frozenAt |-> 0, freezeUntil |-> 0,
                executed |-> FALSE, cancelled |-> FALSE]

ThreatOf(id) == IF id \in DOMAIN threatDetections THEN threatDetections[id] ELSE EmptyThreat
FrozenOf(id) == IF id \in DOMAIN frozenTransactions THEN frozenTransactions[id] ELSE EmptyFrozen

\* threatId = keccak256(target, sender, data, value, block.number, block.timestamp):
\* an injective function of the tuple (the timestamp is fixed by the block).
ThreatIdOf(target, sender, data, value) ==
  [target |-> target, sender |-> sender, data |-> data, value |-> value, block |-> blockNumber]

Put(f, k, v) == [x \in (DOMAIN f) \cup {k} |-> IF x = k THEN v ELSE f[x]]

NoPending == [sender |-> ZeroAddress, target |-> ZeroAddress, data |-> "empty", value |-> 0,
              balanceLow |-> FALSE, gasLow |-> FALSE, gasPriceHigh |-> FALSE,
              origin |-> ZeroAddress]

NoRead == [sender |-> ZeroAddress, block |-> 0, value |-> 0]

NoSubmits == [block |-> 0, n |-> 0]

NoVerdict == [input |-> [sender |-> ZeroAddress, target |-> ZeroAddress, data |-> "empty",
                         value |-> 0, balanceLow |-> FALSE, gasLow |-> FALSE,
                         gasPriceHigh |-> FALSE],
              level |-> NONE, vulnType |-> "UNKNOWN", panic |-> FALSE]

\* What a target returns when its call succeeds, and the reason it reverts
\* with when it fails.
TargetResult == "ret"
TargetRevert == "target revert reason"

NoCall == [to |-> ZeroAddress, from |-> ZeroAddress, data |-> "empty", value |-> 0]

\* Variant: the attached value is not passed on.
ExternalCallNoValue(to, data, value) ==
  [to |-> to, from |-> ImmunityLayer, data |-> data, value |-> 0]

\* _target.call{value: _value}(_data) as the target sees it: msg.sender is
\* the contract that makes the call.
ExternalCall(to, data, value) ==
  [to |-> to, from |-> ImmunityLayer, data |-> data, value |-> value]

\* The outcome of a transaction as its sender observes it: err is the revert
\* reason ("" on success), calls the number of calls made to the target, sent
\* the last such call, ret the value returned to the sender.
Op(op, id, action, err, level, calls) ==
  [op |-> op, id |-> id, action |-> action, err |-> err, level |-> level, calls |-> calls,
   sent |-> NoCall, ret |-> ""]

Init ==
  /\ protectedContracts = [t \in Targets |-> ContractProfile(FALSE, 0)]
  /\ threatDetections = <<>>
  /\ frozenTransactions = <<>>
  /\ suspiciousAddressCount = [s \in Senders |-> 0]
  /\ lastInteractionBlock = [s \in Senders |-> 0]
  /\ totalThreatsDetected = 0
  /\ totalThreatsMitigated = 0
  /\ totalLossPrevented = 0
  /\ freezeDuration = DefaultFreezeDuration
  /\ suspiciousCallThreshold = DefaultSuspiciousCallThreshold
  /\ emergencyStop = FALSE
  /\ blockNumber = 1
  /\ lastOp = Op("constructor", NoId, "", "", NONE, 0)
  /\ averageDepositAmount = 0
  /\ depositCount = 0
  /\ balances = [a \in Senders \cup {ImmunityLayer} |-> 0]
  /\ analysisRequests = <<>>
  /\ classified = NoVerdict
  /\ counterRead = NoRead
  /\ submitsInBlock = [s \in Senders |-> NoSubmits]
  /\ aiOracle = ZeroAddress
  /\ simulationResults = <<>>
  /\ _status = "NOT_ENTERED"
  /\ pending = NoPending

\* ------------------------------------------------------------ block clock
Mine ==
  /\ blockNumber < MaxBlock
  /\ blockNumber' = blockNumber + 1
  /\ UNCHANGED <<storage, lastOp, ledger, oracle, probe, simulation, reentrancy>>

\* ------------------------------------------------------- threat detector
\* Variant: the length test is strict, so a bare 4-byte selector is not read.
_detectReentrancyPatternLongOnly(data, caller) ==
  IF caller \notin Contracts THEN FALSE
  ELSE DataLength(data) > 4 /\ Selector(data) \in vulnerableSigs

_detectReentrancyPattern(data, caller) ==
  IF caller \notin Contracts THEN FALSE
  ELSE DataLength(data) >= 4 /\ Selector(data) \in vulnerableSigs

_detectFlashLoanPattern(caller, value, balanceLow, origin, gasLow) ==
  \/ (caller \in Contracts /\ balanceLow /\ origin # caller)
  \/ (value > LargeValue /\ gasLow)

\* Bumps the per-caller counter; returns the verdict with the new counter.
_detectStateManipulation(caller) ==
  IF lastInteractionBlock[caller] = blockNumber
  THEN [hit |-> suspiciousAddressCount[caller] + 1 >= suspiciousCallThreshold,
        count |-> suspiciousAddressCount[caller] + 1, last |-> blockNumber]
  ELSE [hit |-> FALSE, count |-> 1, last |-> blockNumber]

\* bytes4(_data[:4]) on 1..3 bytes of calldata is an out-of-range slice.
SliceOutOfRange(data, value) ==
  value > 0 /\ DataLength(data) > 0 /\ DataLength(data) < 4

_detectUnexpectedETHFlow(data, value) ==
  value > 0 /\ DataLength(data) > 0 /\ Selector(data) # "00000000"

_detectUnsafeCall(data) ==
  DataLength(data) >= 4 /\ Selector(data) \in unsafeSigs

_detectAccessControlViolation(data) ==
  DataLength(data) >= 4 /\ Selector(data) \in adminSigs

\* Second bump of the same counter, on the counter left by _detectStateManipulation.
_detectHighFrequencyCalls(sm) ==
  IF sm.last = blockNumber
  THEN [hit |-> sm.count + 1 > HighFrequencyLimit, count |-> sm.count + 1, last |-> sm.last]
  ELSE [hit |-> FALSE, count |-> sm.count, last |-> sm.last]

Verdict(level, vulnType, reason, count, last, panic) ==
  [level |-> level, vulnType |-> vulnType, reason |-> reason,
   count |-> count, last |-> last, panic |-> panic]

_detectThreats(caller, data, value, balanceLow, origin, gasLow, gasPriceHigh) ==
  LET c0 == suspiciousAddressCount[caller]
      b0 == lastInteractionBlock[caller]
      sm == _detectStateManipulation(caller)
      hf == _detectHighFrequencyCalls(sm)
  IN IF _detectReentrancyPattern(data, caller)
     THEN Verdict(HIGH, "REENTRANCY", "Possible reentrancy attack pattern detected", c0, b0, FALSE)
     ELSE IF _detectFlashLoanPattern(caller, value, balanceLow, origin, gasLow)
     THEN Verdict(HIGH, "FLASH_LOAN", "Flash loan manipulation pattern detected", c0, b0, FALSE)
     ELSE IF sm.hit
     THEN Verdict(MEDIUM, "STATE_MANIPULATION", "Suspicious state manipulation pattern", sm.count, sm.last, FALSE)
     ELSE IF SliceOutOfRange(data, value)
     THEN Verdict(NONE, "UNKNOWN", "", sm.count, sm.last, TRUE)
     ELSE IF _detectUnexpectedETHFlow(data, value)
     THEN Verdict(MEDIUM, "UNEXPECTED_ETH_FLOW", "Unexpected ETH transfer pattern", sm.count, sm.last, FALSE)
     ELSE IF _detectUnsafeCall(data)
     THEN Verdict(LOW, "UNSAFE_CALL", "Unsafe external call detected", sm.count, sm.last, FALSE)
     ELSE IF _detectAccessControlViolation(data)
     THEN Verdict(HIGH, "ACCESS_CONTROL", "Possible access control violation", sm.count, sm.last, FALSE)
     ELSE IF hf.hit
     THEN Verdict(LOW, "UNKNOWN", "High frequency calls from same address", hf.count, hf.last, FALSE)
     ELSE IF gasPriceHigh
     THEN Verdict(LOW, "UNKNOWN", "Unusually high gas price", hf.count, hf.last, FALSE)
     ELSE Verdict(NONE, "UNKNOWN", "", hf.count, hf.last, FALSE)

\* Variant: every finding is stored as LOW.
NewThreatStoredLow(target, caller, data, v) ==
  [suspiciousCaller |-> caller, targetContract |-> target, originalCalldata |-> data,
   level |-> LOW, vulnType |-> v.vulnType, reason |-> v.reason,
   blockNumber |-> blockNumber, isMitigated |-> FALSE, mitigationResult |-> "",
   freezeUntilBlock |-> 0]

NewThreat(target, caller, data, v) ==
  [suspiciousCaller |-> caller, targetContract |-> target, originalCalldata |-> data,
   level |-> v.level, vulnType |-> v.vulnType, reason |-> v.reason,
   blockNumber |-> blockNumber, isMitigated |-> FALSE, mitigationResult |-> "",
   freezeUntilBlock |-> 0]

\* Variant: only CRITICAL is held back, HIGH is forwarded like MEDIUM.
FreezeLevelCriticalOnly == CRITICAL

\* The level from which protectedCall freezes instead of forwarding.
FreezeLevel == HIGH

\* A transaction that reverts: storage as before, the sender sees the error.
Reverted(op) ==
  /\ lastOp' = op
  /\ UNCHANGED <<storage, blockNumber>>

\* ------------------------------------------------------------- gateway
\* Variant: a stored finding is counted down instead of up.
ThreatIncrementNegative(level) == IF level > NONE THEN 0 - 1 ELSE 0

\* if (threat.level > ThreatLevel.NONE) { ...; totalThreatsDetected++; ... }
ThreatIncrement(level) == IF level > NONE THEN 1 ELSE 0

\* Variant: the registration requirement is dropped.
TargetProtectedAlways(target) == TRUE

\* require(protectedContracts[_target].isProtected, "Target not protected")
TargetProtected(target) == protectedContracts[target].isProtected

\* Variant: the modifier lets every call through.
notEmergencyStoppedAlways == TRUE

\* modifier notEmergencyStopped: require(!emergencyStop, "Emergency stop is active")
notEmergencyStopped == ~emergencyStop

\* protectedCall behind nonReentrant.
protectedCallBody(sender, target, data, value, balanceLow, origin, gasLow, gasPriceHigh, targetOk) ==
  LET v == _detectThreats(sender, data, value, balanceLow, origin, gasLow, gasPriceHigh)
      threatId == ThreatIdOf(target, sender, data, value)
      out(err, calls) == Op("protectedCall", threatId, "", err, v.level, calls)
      logged == IF v.level > NONE
                THEN Put(threatDetections, threatId, NewThreat(target, sender, data, v))
                ELSE threatDetections
      \* _executeWithEnhancedMonitoring after a successful target call
      forwarded == IF threatId \in DOMAIN logged /\ logged[threatId].level # NONE
                   THEN [logged EXCEPT ![threatId].isMitigated = TRUE,
                                       ![threatId].mitigationResult = TargetResult]
                   ELSE logged
  IN IF ~notEmergencyStopped
     THEN Reverted(Op("protectedCall", threatId, "", "Emergency stop is active", NONE, 0))
     ELSE IF ~TargetProtected(target)
     THEN Reverted(Op("protectedCall", threatId, "", "Target not protected", NONE, 0))
     ELSE IF v.panic
     THEN Reverted(out("Panic", 0))
     ELSE IF v.level >= FreezeLevel
     THEN \* _freezeTransaction and _requestAISimulation run, then revert(...)
          Reverted(out("Transaction frozen for security review", 0))
     ELSE IF ~targetOk
     THEN \* require(success, "Execution failed")
          Reverted([out("Execution failed", 1) EXCEPT !.sent = ExternalCall(target, data, value)])
     ELSE /\ v.count <= MaxCount
          /\ Cardinality(DOMAIN forwarded) <= MaxThreats
          /\ threatDetections' = forwarded
          /\ totalThreatsDetected' = totalThreatsDetected + ThreatIncrement(v.level)
          /\ suspiciousAddressCount' = [suspiciousAddressCount EXCEPT ![sender] = v.count]
          /\ lastInteractionBlock' = [lastInteractionBlock EXCEPT ![sender] = v.last]
          /\ lastOp' = [out("", 1) EXCEPT !.sent = ExternalCall(target, data, value),
                                         !.ret = TargetResult]
          /\ UNCHANGED <<protectedContracts, frozenTransactions, totalThreatsMitigated,
                         totalLossPrevented, freezeDuration, suspiciousCallThreshold,
                         emergencyStop, blockNumber>>

\* Variant: protectedCall carries no reentrancy guard.
EnteredNever == FALSE

\* ReentrancyGuard: _status is ENTERED while a nonReentrant function runs.
Entered == _status = "ENTERED"

protectedCall(sender, target, data, value, balanceLow, origin, gasLow, gasPriceHigh, targetOk) ==
  IF Entered
  THEN Reverted(Op("protectedCall", ThreatIdOf(target, sender, data, value), "",
                   "ReentrancyGuard: reentrant call", NONE, 0))
  ELSE protectedCallBody(sender, target, data, value, balanceLow, origin, gasLow,
                         gasPriceHigh, targetOk)

\* ------------------------------------------------------- view functions
isContractProtected(target) == protectedContracts[target].isProtected

\* The call either reverts (err) or returns the stored level (value).
getProtectionLevel(target) ==
  IF ~protectedContracts[target].isProtected
  THEN [err |-> "Contract not protected", value |-> 0]
  ELSE [err |-> "", value |-> protectedContracts[target].protectionLevel]

getStats == <<totalThreatsDetected, totalThreatsMitigated, totalLossPrevented>>

_isFrozen(threatId) == ThreatOf(threatId).freezeUntilBlock > blockNumber

\* The fields getThreatDetails returns (the timestamp is fixed by the block).
getThreatDetails(threatId) ==
  [caller |-> ThreatOf(threatId).suspiciousCaller,
   target |-> ThreatOf(threatId).targetContract,
   level |-> ThreatOf(threatId).level,
   vulnType |-> ThreatOf(threatId).vulnType,
   reason |-> ThreatOf(threatId).reason,
   isFrozen |-> _isFrozen(threatId),
   isMitigated |-> ThreatOf(threatId).isMitigated,
   freezeUntil |-> ThreatOf(threatId).freezeUntilBlock]

\* ------------------------------------------------------- owner functions
\* onlyOwner rejects the call before the function body sees its arguments.
NotOwner(op, id, action) ==
  Reverted(Op(op, NoId, "", "Ownable: caller is not the owner", NONE, 0))

RegistryId(target) == [NoId EXCEPT !.target = target]

addContractProtection(sender, target, level) ==
  IF sender # Owner
  THEN NotOwner("addContractProtection", RegistryId(target), "")
  ELSE IF target = ZeroAddress
  THEN Reverted(Op("addContractProtection", RegistryId(target), "", "Invalid contract address", NONE, 0))
  ELSE IF ~(level >= MinProtectionLevel /\ level <= MaxProtectionLevel)
  THEN Reverted(Op("addContractProtection", RegistryId(target), "", "Invalid protection level", NONE, 0))
  ELSE /\ protectedContracts' = [protectedContracts EXCEPT ![target] = ContractProfile(TRUE, level)]
       /\ lastOp' = Op("addContractProtection", RegistryId(target), "", "", NONE, 0)
       /\ UNCHANGED <<threatDetections, frozenTransactions, suspiciousAddressCount,
                      lastInteractionBlock, totalThreatsDetected, totalThreatsMitigated,
                      totalLossPrevented, freezeDuration, suspiciousCallThreshold,
                      emergencyStop, blockNumber>>

\* Variant: deregistering deletes the entry instead of deactivating it.
removeContractProtectionDeleting(sender, target) ==
  IF sender # Owner
  THEN NotOwner("removeContractProtection", RegistryId(target), "")
  ELSE IF ~protectedContracts[target].isProtected
  THEN Reverted(Op("removeContractProtection", RegistryId(target), "", "Contract not protected", NONE, 0))
  ELSE /\ protectedContracts' = [protectedContracts EXCEPT ![target] = ContractProfile(FALSE, 0)]
       /\ lastOp' = Op("removeContractProtection", RegistryId(target), "", "", NONE, 0)
       /\ UNCHANGED <<threatDetections, frozenTransactions, suspiciousAddressCount,
                      lastInteractionBlock, totalThreatsDetected, totalThreatsMitigated,
                      totalLossPrevented, freezeDuration, suspiciousCallThreshold,
                      emergencyStop, blockNumber>>

removeContractProtection(sender, target) ==
  IF sender # Owner
  THEN NotOwner("removeContractProtection", RegistryId(target), "")
  ELSE IF ~protectedContracts[target].isProtected
  THEN Reverted(Op("removeContractProtection", RegistryId(target), "", "Contract not protected", NONE, 0))
  ELSE /\ protectedContracts' = [protectedContracts EXCEPT ![target].isProtected = FALSE]
       /\ lastOp' = Op("removeContractProtection", RegistryId(target), "", "", NONE, 0)
       /\ UNCHANGED <<threatDetections, frozenTransactions, suspiciousAddressCount,
                      lastInteractionBlock, totalThreatsDetected, totalThreatsMitigated,
                      totalLossPrevented, freezeDuration, suspiciousCallThreshold,
                      emergencyStop, blockNumber>>

\* Variant: the override applies the action without validating the record.
OverrideGuardMissing(threatId) == ""

\* The require chain at the head of executeOwnerOverride: "" when all pass.
OverrideGuard(threatId) ==
  IF ThreatOf(threatId).level = NONE THEN "No threat found"
  ELSE IF ~(FrozenOf(threatId).frozenAt > 0) THEN "Transaction not frozen"
  ELSE IF ~(~FrozenOf(threatId).executed /\ ~FrozenOf(threatId).cancelled)
  THEN "Transaction already processed"
  ELSE IF ~(blockNumber <= FrozenOf(threatId).freezeUntil) THEN "Freeze period expired"
  ELSE ""

\* The body of executeOwnerOverride behind its access check; op names the
\* entry point through which it was reached.
Resolve(op, threatId, action, targetOk) ==
  LET threat == ThreatOf(threatId)
      frozenTx == FrozenOf(threatId)
      out(err, calls) == Op(op, threatId, action, err, threat.level, calls)
      called == [out("", 1) EXCEPT
                  !.sent = ExternalCall(threat.targetContract, threat.originalCalldata, 0)]
      others == <<protectedContracts, suspiciousAddressCount, lastInteractionBlock,
                  totalThreatsDetected, totalLossPrevented, freezeDuration,
                  suspiciousCallThreshold, emergencyStop, blockNumber>>
  IN IF OverrideGuard(threatId) # ""
     THEN Reverted(out(OverrideGuard(threatId), 0))
     ELSE IF action = "execute"
     THEN \* threat.targetContract.call{value: 0}(threat.originalCalldata)
          IF targetOk
          THEN /\ threatDetections' = Put(threatDetections, threatId,
                      [threat EXCEPT !.isMitigated = TRUE, !.mitigationResult = TargetResult])
               /\ frozenTransactions' = Put(frozenTransactions, threatId,
                      [frozenTx EXCEPT !.executed = TRUE])
               /\ totalThreatsMitigated' = totalThreatsMitigated + 1
               /\ lastOp' = called
               /\ UNCHANGED others
          ELSE \* success = false: nothing is written and the function returns
               /\ lastOp' = called
               /\ UNCHANGED <<storage, blockNumber>>
     ELSE IF action = "revert"
     THEN /\ threatDetections' = Put(threatDetections, threatId,
                 [threat EXCEPT !.isMitigated = TRUE,
                                !.mitigationResult = "Transaction reverted by owner"])
          /\ frozenTransactions' = Put(frozenTransactions, threatId,
                 [frozenTx EXCEPT !.cancelled = TRUE])
          /\ totalThreatsMitigated' = totalThreatsMitigated + 1
          /\ lastOp' = out("", 0)
          /\ UNCHANGED others
     ELSE IF action = "simulate"
     THEN Reverted(out("Simulation requested", 0))
     ELSE Reverted(out("Invalid action", 0))

executeOwnerOverride(sender, threatId, action, targetOk) ==
  IF sender # Owner
  THEN NotOwner("executeOwnerOverride", threatId, action)
  ELSE Resolve("executeOwnerOverride", threatId, action, targetOk)

\* Resolution by the original caller of the frozen attempt (specified only:
\* the contract version that declares it is called by the demo scripts).  The
\* same transitions as executeOwnerOverride, accepted from the initiator
\* recorded in the frozen transaction.
userResolveThreat(sender, threatId, action, targetOk) ==
  IF sender # FrozenOf(threatId).initiator
  THEN Reverted(Op("userResolveThreat", threatId, action, "Not the initiator",
                   ThreatOf(threatId).level, 0))
  ELSE Resolve("userResolveThreat", threatId, action, targetOk)

\* Variant: the onlyOwner modifier is missing.
activateEmergencyStopOpen(sender) ==
  /\ emergencyStop' = TRUE
  /\ lastOp' = Op("activateEmergencyStop", NoId, "", "", NONE, 0)
  /\ UNCHANGED <<protectedContracts, threatDetections, frozenTransactions,
                 suspiciousAddressCount, lastInteractionBlock, totalThreatsDetected,
                 totalThreatsMitigated, totalLossPrevented, freezeDuration,
                 suspiciousCallThreshold, blockNumber>>

activateEmergencyStop(sender) ==
  IF sender # Owner
  THEN NotOwner("activateEmergencyStop", NoId, "")
  ELSE /\ emergencyStop' = TRUE
       /\ lastOp' = Op("activateEmergencyStop", NoId, "", "", NONE, 0)
       /\ UNCHANGED <<protectedContracts, threatDetections, frozenTransactions,
                      suspiciousAddressCount, lastInteractionBlock, totalThreatsDetected,
                      totalThreatsMitigated, totalLossPrevented, freezeDuration,
                      suspiciousCallThreshold, blockNumber>>

deactivateEmergencyStop(sender) ==
  IF sender # Owner
  THEN NotOwner("deactivateEmergencyStop", NoId, "")
  ELSE /\ emergencyStop' = FALSE
       /\ lastOp' = Op("deactivateEmergencyStop", NoId, "", "", NONE, 0)
       /\ UNCHANGED <<protectedContracts, threatDetections, frozenTransactions,
                      suspiciousAddressCount, lastInteractionBlock, totalThreatsDetected,
                      totalThreatsMitigated, totalLossPrevented, freezeDuration,
                      suspiciousCallThreshold, blockNumber>>

setFreezeDuration(sender, duration) ==
  IF sender # Owner
  THEN NotOwner("setFreezeDuration", NoId, "")
  ELSE IF ~(duration > 0 /\ duration <= MaxFreezeDuration)
  THEN Reverted(Op("setFreezeDuration", NoId, "", "Invalid duration", NONE, 0))
  ELSE /\ freezeDuration' = duration
       /\ lastOp' = Op("setFreezeDuration", NoId, "", "", NONE, 0)
       /\ UNCHANGED <<protectedContracts, threatDetections, frozenTransactions,
                      suspiciousAddressCount, lastInteractionBlock, totalThreatsDetected,
                      totalThreatsMitigated, totalLossPrevented, suspiciousCallThreshold,
                      emergencyStop, blockNumber>>

setSuspiciousCallThreshold(sender, threshold) ==
  IF sender # Owner
  THEN NotOwner("setSuspiciousCallThreshold", NoId, "")
  ELSE IF ~(threshold > 0)
  THEN Reverted(Op("setSuspiciousCallThreshold", NoId, "", "Invalid threshold", NONE, 0))
  ELSE /\ suspiciousCallThreshold' = threshold
       /\ lastOp' = Op("setSuspiciousCallThreshold", NoId, "", "", NONE, 0)
       /\ UNCHANGED <<protectedContracts, threatDetections, frozenTransactions,
                      suspiciousAddressCount, lastInteractionBlock, totalThreatsDetected,
                      totalThreatsMitigated, totalLossPrevented, freezeDuration,
                      emergencyStop, blockNumber>>

\* ------------------------------------------------- AI oracle functions
setAIOracle(sender, newOracle) ==
  IF sender # Owner
  THEN NotOwner("setAIOracle", NoId, "") /\ UNCHANGED simulation
  ELSE IF newOracle = ZeroAddress
  THEN /\ Reverted(Op("setAIOracle", NoId, "", "Invalid AI Oracle address", NONE, 0))
       /\ UNCHANGED simulation
  ELSE /\ aiOracle' = newOracle
       /\ lastOp' = Op("setAIOracle", NoId, "", "", NONE, 0)
       /\ UNCHANGED <<storage, blockNumber, simulationResults>>

\* threat.reason with the root causes of n analyses appended to it.
RECURSIVE Analysed(_, _, _)
Analysed(reason, rootCause, n) ==
  IF n = 0 THEN reason
  ELSE Analysed(reason, rootCause, n - 1) \o " | AI Analysis: " \o rootCause

\* keccak256(abi.encodePacked(_threatId, block.timestamp, msg.sender))
SimulationIdOf(threatId, sender) ==
  [threatId |-> threatId, block |-> blockNumber, sender |-> sender]

\* The record as _executeAutoMitigation leaves it, and its count of mitigations.
_executeAutoMitigation(threat, action) ==
  IF action = "revert"
  THEN [threat |-> [threat EXCEPT !.isMitigated = TRUE,
                                  !.mitigationResult = "Auto-reverted by AI analysis"],
        mitigated |-> 1]
  ELSE [threat |-> threat, mitigated |-> 0]

receiveAISimulationResult(sender, threatId, isDangerous, estimatedLoss, rootCause, suggestedMitigation) ==
  LET threat == ThreatOf(threatId)
      out(err) == Op("receiveAISimulationResult", threatId, suggestedMitigation, err,
                     threat.level, 0)
      explained == [threat EXCEPT !.reason = Analysed(threat.reason, rootCause, 1)]
      auto == IF isDangerous /\ threat.level = CRITICAL
              THEN _executeAutoMitigation(explained, suggestedMitigation)
              ELSE [threat |-> explained, mitigated |-> 0]
  IN IF sender # aiOracle
     THEN Reverted(out("Only AI Oracle can call")) /\ UNCHANGED simulation
     ELSE IF threat.level = NONE
     THEN Reverted(out("No threat found")) /\ UNCHANGED simulation
     ELSE /\ simulationResults' = Put(simulationResults, SimulationIdOf(threatId, sender),
                 [isDangerous |-> isDangerous, estimatedLoss |-> estimatedLoss,
                  rootCause |-> rootCause, suggestedMitigation |-> suggestedMitigation])
          /\ threatDetections' = Put(threatDetections, threatId, auto.threat)
          /\ totalThreatsMitigated' = totalThreatsMitigated + auto.mitigated
          /\ lastOp' = out("")
          /\ UNCHANGED <<protectedContracts, frozenTransactions, suspiciousAddressCount,
                         lastInteractionBlock, totalThreatsDetected, totalLossPrevented,
                         freezeDuration, suspiciousCallThreshold, emergencyStop,
                         blockNumber, aiOracle>>

\* ----------------------------------------------------- AIAnalysisOracle
\* constructor(address _immunityLayer): owner = msg.sender (the deployer, who
\* also owns the gateway), immunityLayer = the configured gateway identity.
OracleOwner == Owner

EmptyRequest == [targetContract |-> ZeroAddress, caller |-> ZeroAddress, data |-> "empty",
                 timestamp |-> 0, completed |-> FALSE, aiAnalysis |-> "",
                 suggestedAction |-> ""]

RequestOf(id) == IF id \in DOMAIN analysisRequests THEN analysisRequests[id] ELSE EmptyRequest

\* A call to the oracle that reverts.
OracleReverted(op) ==
  /\ lastOp' = op
  /\ UNCHANGED <<storage, blockNumber, oracle>>

requestAnalysis(sender, threatId, targetContract, caller, data) ==
  IF sender # ImmunityLayer
  THEN OracleReverted(Op("requestAnalysis", threatId, "", "Only Immunity Layer can call", NONE, 0))
  ELSE /\ analysisRequests' = Put(analysisRequests, threatId,
              [targetContract |-> targetContract, caller |-> caller, data |-> data,
               timestamp |-> blockNumber, completed |-> FALSE, aiAnalysis |-> "",
               suggestedAction |-> ""])
       /\ lastOp' = Op("requestAnalysis", threatId, "", "", NONE, 0)
       /\ UNCHANGED <<storage, blockNumber>>

\* Variant: the completed flag is not consulted.
AlreadyCompletedNever(threatId) == FALSE

\* require(!analysisRequests[_threatId].completed, "Analysis already completed")
AlreadyCompleted(threatId) == RequestOf(threatId).completed

submitAnalysis(sender, threatId, analysis, suggestedAction) ==
  IF sender # OracleOwner
  THEN OracleReverted(Op("submitAnalysis", threatId, suggestedAction, "Only owner", NONE, 0))
  ELSE IF AlreadyCompleted(threatId)
  THEN OracleReverted(Op("submitAnalysis", threatId, suggestedAction,
                         "Analysis already completed", NONE, 0))
  ELSE /\ analysisRequests' = Put(analysisRequests, threatId,
              [RequestOf(threatId) EXCEPT !.completed = TRUE, !.aiAnalysis = analysis,
                                          !.suggestedAction = suggestedAction])
       /\ lastOp' = Op("submitAnalysis", threatId, suggestedAction, "", NONE, 0)
       /\ UNCHANGED <<storage, blockNumber>>

getAnalysis(threatId) ==
  <<RequestOf(threatId).aiAnalysis, RequestOf(threatId).suggestedAction,
    RequestOf(threatId).completed>>

\* ------------------------------------------------------ BankingContract
\* deposit(): the balance of msg.sender and the running average of the
\* deposit amounts.
deposit(msgSender, value) ==
  /\ balances' = [balances EXCEPT ![msgSender] = @ + value]
  /\ depositCount' = depositCount + 1
  /\ averageDepositAmount' =
       ((averageDepositAmount * ((depositCount + 1) - 1)) + value) \div (depositCount + 1)

\* ----------------------------------------------------------- specification
Attempt(sender, target, data, value, balanceLow, gasLow, gasPriceHigh) ==
  [sender |-> sender, target |-> target, data |-> data, value |-> value,
   balanceLow |-> balanceLow, gasLow |-> gasLow, gasPriceHigh |-> gasPriceHigh]

\* The call attempts submitted: one or two per branch of the classifier.
Attempts ==
  { Attempt("user", "bank", "deposit", 1, FALSE, FALSE, FALSE),
    Attempt("user", "bank", "withdraw", 0, FALSE, FALSE, FALSE),
    Attempt("user", "bank", "upgradeTo", 0, FALSE, FALSE, FALSE),
    Attempt("user", "bank", "empty", 11, FALSE, TRUE, FALSE),
    Attempt("user", "bank", "short", 1, FALSE, FALSE, FALSE),
    Attempt("owner", "bank", "mint", 0, FALSE, FALSE, FALSE),
    Attempt("attacker", "bank", "withdraw", 0, FALSE, FALSE, FALSE) }

\* Who calls the owner-only functions: the owner and one other account.
Admins == {Owner, "user"}

\* tx.origin is the externally owned account that signed the transaction.
Origins(sender) == IF sender \in EOAs THEN {sender} ELSE {"user"}

\* Threat ids a sender can name: the stored ones, the one of the attempt just
\* refused as frozen, and one that was never issued.
KnownIds ==
  (DOMAIN threatDetections)
    \cup (IF lastOp.op = "protectedCall" /\ lastOp.level >= HIGH THEN {lastOp.id} ELSE {})
    \cup {NoId}

Submit ==
  \E a \in Attempts, targetOk \in BOOLEAN :
    \E origin \in Origins(a.sender) :
      /\ protectedCall(a.sender, a.target, a.data, a.value, a.balanceLow, origin,
                       a.gasLow, a.gasPriceHigh, targetOk)
      /\ UNCHANGED <<ledger, oracle, probe, simulation, reentrancy>>

Register ==
  \E sender \in Admins, target \in Targets \cup {ZeroAddress}, level \in LevelInputs :
    addContractProtection(sender, target, level) /\ UNCHANGED <<ledger, oracle, probe, simulation, reentrancy>>

Deregister ==
  \E sender \in Admins, target \in Targets :
    removeContractProtection(sender, target) /\ UNCHANGED <<ledger, oracle, probe, simulation, reentrancy>>

OwnerOverride ==
  \E sender \in Admins, threatId \in KnownIds, action \in Actions, targetOk \in BOOLEAN :
    executeOwnerOverride(sender, threatId, action, targetOk) /\ UNCHANGED <<ledger, oracle, probe, simulation, reentrancy>>

EmergencyOn ==
  \E sender \in Admins : activateEmergencyStop(sender) /\ UNCHANGED <<ledger, oracle, probe, simulation, reentrancy>>

EmergencyOff ==
  \E sender \in Admins : deactivateEmergencyStop(sender) /\ UNCHANGED <<ledger, oracle, probe, simulation, reentrancy>>

SetFreezeDuration ==
  \E sender \in Admins, duration \in DurationInputs :
    setFreezeDuration(sender, duration) /\ UNCHANGED <<ledger, oracle, probe, simulation, reentrancy>>

UserResolve ==
  \E sender \in Senders, threatId \in KnownIds, action \in Actions, targetOk \in BOOLEAN :
    userResolveThreat(sender, threatId, action, targetOk) /\ UNCHANGED <<ledger, oracle, probe, simulation, reentrancy>>

Next ==
  \/ Submit
  \/ Register
  \/ Deregister
  \/ OwnerOverride
  \/ EmergencyOn
  \/ EmergencyOff
  \/ SetFreezeDuration
  \/ Mine

Spec == Init /\ [][Next]_vars

\* Deposits and withdrawals of the banking contract sent through the gateway.
LedgerAttempts ==
  { Attempt("user", "bank", "deposit", 1, FALSE, FALSE, FALSE),
    Attempt("owner", "bank", "deposit", 1, FALSE, FALSE, FALSE),
    Attempt("user", "bank", "withdraw10", 0, FALSE, FALSE, FALSE),
    Attempt("user", "bank", "withdraw11", 0, FALSE, FALSE, FALSE) }

\* protectedCall with the banking contract as the target: a forwarded deposit
\* that succeeds updates the bank's running average.
LedgerSubmit ==
  \E a \in LedgerAttempts, targetOk \in BOOLEAN :
    /\ protectedCall(a.sender, a.target, a.data, a.value, a.balanceLow, a.sender,
                     a.gasLow, a.gasPriceHigh, targetOk)
    /\ IF lastOp'.err = "" /\ a.data = "deposit"
       THEN depositCount < MaxDeposits /\ deposit(lastOp'.sent.from, lastOp'.sent.value)
       ELSE UNCHANGED ledger
    /\ UNCHANGED <<oracle, probe, simulation, reentrancy>>

NextLedger ==
  \/ LedgerSubmit
  \/ Register
  \/ Mine

SpecLedger == Init /\ [][NextLedger]_vars

\* Call attempts over every combination the classifier distinguishes, from
\* one externally owned account and one contract: only a contract has a
\* balance worth testing, and gas runs low only on large value.
ClassifyInputs ==
  { a \in [sender : {"user", "attacker"}, target : Targets,
           data : {"empty", "withdraw", "deposit", "mint", "upgradeTo"},
           value : {0, 11}, balanceLow : BOOLEAN, gasLow : BOOLEAN,
           gasPriceHigh : BOOLEAN] :
      /\ a.balanceLow => a.sender \in Contracts
      /\ a.gasLow => a.value > LargeValue }

\* The gateway after addContractProtection(bank, 3) and any number of calls:
\* each caller never seen, or seen in block 1 with its counter at any value
\* from 1.
InitClassify ==
  /\ protectedContracts = [t \in Targets |-> ContractProfile(TRUE, 3)]
  /\ threatDetections = <<>>
  /\ frozenTransactions = <<>>
  /\ \E c \in 0..MaxSeenCount :
       /\ suspiciousAddressCount = [s \in Senders |-> c]
       /\ lastInteractionBlock = [s \in Senders |-> IF c = 0 THEN 0 ELSE 1]
  /\ totalThreatsDetected = 0
  /\ totalThreatsMitigated = 0
  /\ totalLossPrevented = 0
  /\ freezeDuration = DefaultFreezeDuration
  /\ suspiciousCallThreshold = DefaultSuspiciousCallThreshold
  /\ emergencyStop = FALSE
  /\ blockNumber = 1
  /\ lastOp = Op("addContractProtection", RegistryId("bank"), "", "", NONE, 0)
  /\ averageDepositAmount = 0
  /\ depositCount = 0
  /\ balances = [a \in Senders \cup {ImmunityLayer} |-> 0]
  /\ analysisRequests = <<>>
  /\ classified = NoVerdict
  /\ counterRead = NoRead
  /\ submitsInBlock = [s \in Senders |-> NoSubmits]
  /\ aiOracle = ZeroAddress
  /\ simulationResults = <<>>
  /\ _status = "NOT_ENTERED"
  /\ pending = NoPending

\* ThreatDetection memory threat = _detectThreats(_target, msg.sender, _data, msg.value)
Classify ==
  \E a \in ClassifyInputs :
    \E origin \in Origins(a.sender) :
      LET v == _detectThreats(a.sender, a.data, a.value, a.balanceLow, origin,
                              a.gasLow, a.gasPriceHigh)
      IN /\ TargetProtected(a.target)
         /\ ~emergencyStop
         /\ classified' = [input |-> a, level |-> v.level, vulnType |-> v.vulnType,
                           panic |-> v.panic]
         /\ UNCHANGED <<storage, blockNumber, lastOp, ledger, oracle, simulation, counterRead,
                      submitsInBlock, reentrancy>>

\* protectedCall by a contract whose balance is low.
ClassifySubmit ==
  \E a \in ClassifyInputs, targetOk \in BOOLEAN :
    /\ a.sender \in Contracts /\ a.balanceLow /\ a.value = 0 /\ ~a.gasPriceHigh
    /\ a.data \in {"withdraw", "upgradeTo"}
    /\ \E origin \in Origins(a.sender) :
         protectedCall(a.sender, a.target, a.data, a.value, a.balanceLow, origin,
                       a.gasLow, a.gasPriceHigh, targetOk)
    /\ UNCHANGED <<ledger, oracle, probe, simulation, reentrancy>>

NextClassify ==
  \/ Classify
  \/ ClassifySubmit
  \/ Mine

SpecClassify == InitClassify /\ [][NextClassify]_vars

\* Who calls the oracle: its owner, another account, and the gateway identity
\* it was constructed with.
OracleCallers == {OracleOwner, "user", ImmunityLayer}
\* The verdicts submitted: <<analysis text, suggested action>>.
Verdicts == {<<"a1", "revert">>, <<"a2", "execute">>}

\* Threat ids named to the oracle: those the gateway reported or stored, those
\* the oracle already holds, and one that was never issued.
AnalysisIds == KnownIds \cup DOMAIN analysisRequests

RequestAnalysis ==
  \E sender \in OracleCallers, threatId \in AnalysisIds :
    /\ Cardinality(DOMAIN analysisRequests \cup {threatId}) <= MaxRequests
    /\ requestAnalysis(sender, threatId, threatId.target, threatId.sender, threatId.data)
    /\ UNCHANGED <<ledger, probe, simulation, reentrancy>>

SubmitAnalysis ==
  \E sender \in OracleCallers, threatId \in AnalysisIds, verdict \in Verdicts :
    /\ Cardinality(DOMAIN analysisRequests \cup {threatId}) <= MaxRequests
    /\ submitAnalysis(sender, threatId, verdict[1], verdict[2])
    /\ UNCHANGED <<ledger, probe, simulation, reentrancy>>

\* Attempts whose threat ids reach the oracle: one recorded and forwarded, one
\* refused as frozen.
OracleAttempts ==
  { Attempt("user", "bank", "deposit", 1, FALSE, FALSE, FALSE),
    Attempt("attacker", "bank", "withdraw", 0, FALSE, FALSE, FALSE) }

OracleSubmit ==
  \E a \in OracleAttempts, targetOk \in BOOLEAN :
    \E origin \in Origins(a.sender) :
      /\ protectedCall(a.sender, a.target, a.data, a.value, a.balanceLow, origin,
                       a.gasLow, a.gasPriceHigh, targetOk)
      /\ UNCHANGED <<ledger, oracle, probe, simulation, reentrancy>>

\* The gateway and the oracle side by side.
NextOracle ==
  \/ OracleSubmit
  \/ Register
  \/ RequestAnalysis
  \/ SubmitAnalysis

SpecOracle == Init /\ [][NextOracle]_vars

ThresholdInputs == {0, 2}

SetSuspiciousCallThreshold ==
  \E sender \in Admins, threshold \in ThresholdInputs :
    setSuspiciousCallThreshold(sender, threshold) /\ UNCHANGED <<ledger, oracle, probe, simulation, reentrancy>>

\* Every owner-only function of the gateway and of the oracle, called by the
\* owner and by another account, next to protectedCall.
NextAccess ==
  \/ OracleSubmit
  \/ Register
  \/ Deregister
  \/ OwnerOverride
  \/ EmergencyOn
  \/ EmergencyOff
  \/ SetFreezeDuration
  \/ SetSuspiciousCallThreshold
  \/ SubmitAnalysis

SpecAccess == Init /\ [][NextAccess]_vars

AllLevelInputs == 0..6

RegisterAnyLevel ==
  \E target \in Targets \cup {ZeroAddress}, level \in AllLevelInputs :
    addContractProtection(Owner, target, level) /\ UNCHANGED <<ledger, oracle, probe, simulation, reentrancy>>

\* The registry under every level the owner may pass, with calls in between.
NextRegistry ==
  \/ RegisterAnyLevel
  \/ Deregister
  \/ OracleSubmit

SpecRegistry == Init /\ [][NextRegistry]_vars

\* Attempts for the forwarding path: a plain transfer of value, an unflagged
\* call, a MEDIUM and a LOW one that are monitored, and a refused one.
ForwardAttempts ==
  { Attempt("user", "bank", "empty", 1, FALSE, FALSE, FALSE),
    Attempt("user", "bank", "withdraw", 0, FALSE, FALSE, FALSE),
    Attempt("user", "bank", "deposit", 1, FALSE, FALSE, FALSE),
    Attempt("user", "bank", "upgradeTo", 0, FALSE, FALSE, FALSE),
    Attempt("attacker", "bank", "withdraw", 0, FALSE, FALSE, FALSE) }

ForwardSubmit ==
  \E a \in ForwardAttempts, targetOk \in BOOLEAN :
    \E origin \in Origins(a.sender) :
      /\ protectedCall(a.sender, a.target, a.data, a.value, a.balanceLow, origin,
                       a.gasLow, a.gasPriceHigh, targetOk)
      /\ UNCHANGED <<ledger, oracle, probe, simulation, reentrancy>>

NextForward ==
  \/ ForwardSubmit
  \/ Register
  \/ Mine

SpecForward == Init /\ [][NextForward]_vars

\* Addresses the owner may install as the AI oracle, and who reports to it.
Operator == "operator"
OracleAddresses == {ZeroAddress, Operator}
Reporters == {Operator, "user"}
RootCause == "rc"

\* The detector reasons, each with at most MaxAnalyses analyses appended.
Analysable(reason) ==
  \E n \in 0..(MaxAnalyses - 1) :
    \E base \in {"Suspicious state manipulation pattern", "Unexpected ETH transfer pattern",
                 "Unsafe external call detected", "High frequency calls from same address",
                 "Unusually high gas price", ""} :
      reason = Analysed(base, RootCause, n)

SetAIOracle ==
  \E sender \in Admins, newOracle \in OracleAddresses :
    setAIOracle(sender, newOracle) /\ UNCHANGED <<ledger, oracle, probe, reentrancy>>

ReceiveAISimulationResult ==
  \E sender \in Reporters, threatId \in KnownIds, isDangerous \in BOOLEAN,
     suggestedMitigation \in {"revert", "execute"} :
    /\ Analysable(ThreatOf(threatId).reason)
    /\ receiveAISimulationResult(sender, threatId, isDangerous, 0, RootCause,
                                 suggestedMitigation)
    /\ UNCHANGED <<ledger, oracle, probe, reentrancy>>

\* Attempts that leave an audit record, and one that is refused.
AuditAttempts ==
  { Attempt("user", "bank", "deposit", 1, FALSE, FALSE, FALSE),
    Attempt("user", "bank", "upgradeTo", 0, FALSE, FALSE, FALSE),
    Attempt("attacker", "bank", "withdraw", 0, FALSE, FALSE, FALSE) }

AuditSubmit ==
  \E a \in AuditAttempts, targetOk \in BOOLEAN :
    \E origin \in Origins(a.sender) :
      /\ protectedCall(a.sender, a.target, a.data, a.value, a.balanceLow, origin,
                       a.gasLow, a.gasPriceHigh, targetOk)
      /\ UNCHANGED <<ledger, oracle, probe, simulation, reentrancy>>

\* Everything in the gateway that can write a ThreatDetection or a statistic:
\* protectedCall, executeOwnerOverride and the AI oracle's report.
NextAudit ==
  \/ AuditSubmit
  \/ Register
  \/ OwnerOverride
  \/ SetAIOracle
  \/ ReceiveAISimulationResult

SpecAudit == Init /\ [][NextAudit]_vars

\* Whether protectedCall with these arguments gets as far as
\* _detectStateManipulation: the modifiers and the require pass and neither
\* of the two earlier detectors returns.
ReachesCounter(a, origin) ==
  /\ ~emergencyStop
  /\ TargetProtected(a.target)
  /\ ~_detectReentrancyPattern(a.data, a.sender)
  /\ ~_detectFlashLoanPattern(a.sender, a.value, a.balanceLow, origin, a.gasLow)

\* What the attempt finds in suspiciousAddressCount[caller] for this block.
CounterSeen(caller) ==
  [sender |-> caller, block |-> blockNumber,
   value |-> IF lastInteractionBlock[caller] = blockNumber
             THEN suspiciousAddressCount[caller] ELSE 0]

\* Attempts of one caller that reach the counter: two monitored ones and one
\* that is refused after the counter was bumped; and one that never reads it.
AtomicAttempts ==
  { Attempt("user", "bank", "deposit", 1, FALSE, FALSE, FALSE),
    Attempt("user", "bank", "upgradeTo", 0, FALSE, FALSE, FALSE),
    Attempt("user", "bank", "mint", 0, FALSE, FALSE, FALSE),
    Attempt("attacker", "bank", "withdraw", 0, FALSE, FALSE, FALSE) }

AtomicSubmit ==
  \E a \in AtomicAttempts, targetOk \in BOOLEAN :
    \E origin \in Origins(a.sender) :
      /\ protectedCall(a.sender, a.target, a.data, a.value, a.balanceLow, origin,
                       a.gasLow, a.gasPriceHigh, targetOk)
      /\ counterRead' = IF ReachesCounter(a, origin) THEN CounterSeen(a.sender) ELSE NoRead
      /\ UNCHANGED <<ledger, oracle, classified, submitsInBlock, simulation, reentrancy>>

NextAtomic ==
  \/ AtomicSubmit
  \/ Register
  \/ Mine

SpecAtomic == Init /\ [][NextAtomic]_vars

\* The outer attempt whose target re-enters, and what the target tries.
ReentryAttempts ==
  { Attempt("user", "bank", "deposit", 1, FALSE, FALSE, FALSE),
    Attempt("user", "bank", "withdraw", 0, FALSE, FALSE, FALSE) }

NestedAttempts ==
  { Attempt("attacker", "bank", "deposit", 1, FALSE, FALSE, FALSE),
    Attempt("attacker", "bank", "upgradeTo", 0, FALSE, FALSE, FALSE),
    Attempt("attacker", "bank", "withdraw", 0, FALSE, FALSE, FALSE) }

\* protectedCall has passed nonReentrant, its checks and the classifier and
\* is inside _target.call; what it writes shows when it returns.
BeginForward ==
  \E a \in ReentryAttempts :
    LET v == _detectThreats(a.sender, a.data, a.value, a.balanceLow, a.sender,
                            a.gasLow, a.gasPriceHigh)
    IN /\ ~Entered
       /\ ~emergencyStop
       /\ TargetProtected(a.target)
       /\ ~v.panic
       /\ v.level < FreezeLevel
       /\ _status' = "ENTERED"
       /\ pending' = [sender |-> a.sender, target |-> a.target, data |-> a.data,
                      value |-> a.value, balanceLow |-> a.balanceLow, gasLow |-> a.gasLow,
                      gasPriceHigh |-> a.gasPriceHigh, origin |-> a.sender]
       /\ UNCHANGED <<storage, blockNumber, lastOp, ledger, oracle, probe, simulation>>

\* A contract reached from the target calls protectedCall while the outer
\* call is under way.
NestedSubmit ==
  \E a \in NestedAttempts, targetOk \in BOOLEAN :
    /\ _status = "ENTERED"
    /\ protectedCall(a.sender, a.target, a.data, a.value, a.balanceLow, pending.origin,
                     a.gasLow, a.gasPriceHigh, targetOk)
    /\ UNCHANGED <<ledger, oracle, probe, simulation, reentrancy>>

\* The target call returns or fails and the outer protectedCall finishes.
EndForward ==
  \E targetOk \in BOOLEAN :
    /\ _status = "ENTERED"
    /\ protectedCallBody(pending.sender, pending.target, pending.data, pending.value,
                         pending.balanceLow, pending.origin, pending.gasLow,
                         pending.gasPriceHigh, targetOk)
    /\ _status' = "NOT_ENTERED"
    /\ pending' = NoPending
    /\ UNCHANGED <<ledger, oracle, probe, simulation>>

\* Transactions of their own start only when no call is under way.
IdleRegister == ~Entered /\ Register

IdleSubmit == ~Entered /\ ForwardSubmit

NextReentry ==
  \/ BeginForward
  \/ NestedSubmit
  \/ EndForward
  \/ IdleRegister
  \/ IdleSubmit

SpecReentry == Init /\ [][NextReentry]_vars

\* One caller's attempts through each exit of the classifier behind the
\* state-manipulation detector: a deposit with value (MEDIUM on the value
\* flow), a plain call (no finding), and a mint without and with value.
CounterAttempts ==
  { Attempt("user", "bank", "deposit", 1, FALSE, FALSE, FALSE),
    Attempt("user", "bank", "withdraw", 0, FALSE, FALSE, FALSE),
    Attempt("user", "bank", "mint", 0, FALSE, FALSE, FALSE),
    Attempt("user", "bank", "mint", 1, FALSE, FALSE, FALSE) }

\* The caller's protectedCalls in the current block, this one included.
SubmitsWith(caller) ==
  IF submitsInBlock[caller].block = blockNumber
  THEN [block |-> blockNumber, n |-> submitsInBlock[caller].n + 1]
  ELSE [block |-> blockNumber, n |-> 1]

\* protectedCall to a protected target, with what _detectThreats returned for
\* it and the caller's number of such calls in the block.
CounterSubmit ==
  \E a \in CounterAttempts, targetOk \in BOOLEAN :
    \E origin \in Origins(a.sender) :
      LET v == _detectThreats(a.sender, a.data, a.value, a.balanceLow, origin,
                              a.gasLow, a.gasPriceHigh)
      IN /\ TargetProtected(a.target)
         /\ SubmitsWith(a.sender).n <= MaxCount + 1
         /\ protectedCall(a.sender, a.target, a.data, a.value, a.balanceLow, origin,
                          a.gasLow, a.gasPriceHigh, targetOk)
         /\ classified' = [input |-> a, level |-> v.level, vulnType |-> v.vulnType,
                           panic |-> v.panic]
         /\ submitsInBlock' = [submitsInBlock EXCEPT ![a.sender] = SubmitsWith(a.sender)]
         /\ UNCHANGED <<ledger, oracle, counterRead, simulation, reentrancy>>

\* The per-caller counter under calls in one block and across blocks, with the
\* threshold at its default and lowered by the owner.
NextCounter ==
  \/ CounterSubmit
  \/ Register
  \/ SetSuspiciousCallThreshold
  \/ Mine

SpecCounter == Init /\ [][NextCounter]_vars

\* protectedCall with what _detectThreats returned for it kept, so that the
\* threat id of a refused attempt can still be named after other transactions.
InvokeSubmit ==
  \E a \in OracleAttempts, targetOk \in BOOLEAN :
    \E origin \in Origins(a.sender) :
      LET v == _detectThreats(a.sender, a.data, a.value, a.balanceLow, origin,
                              a.gasLow, a.gasPriceHigh)
      IN /\ protectedCall(a.sender, a.target, a.data, a.value, a.balanceLow, origin,
                          a.gasLow, a.gasPriceHigh, targetOk)
         /\ classified' = IF ~emergencyStop /\ TargetProtected(a.target)
                          THEN [input |-> a, level |-> v.level, vulnType |-> v.vulnType,
                                panic |-> v.panic]
                          ELSE classified
         /\ UNCHANGED <<ledger, oracle, counterRead, submitsInBlock, simulation, reentrancy>>

\* The threat id of the attempt last classified, when it was refused.
RefusedIds ==
  IF classified.level >= FreezeLevel
  THEN {ThreatIdOf(classified.input.target, classified.input.sender,
                   classified.input.data, classified.input.value)}
  ELSE {}

\* executeOwnerOverride on a stored id, on the id of the refused attempt, or
\* on one never issued.
ResolveRefused ==
  \E sender \in Admins, threatId \in KnownIds \cup RefusedIds, action \in Actions,
     targetOk \in BOOLEAN :
    executeOwnerOverride(sender, threatId, action, targetOk)
      /\ UNCHANGED <<ledger, oracle, probe, simulation, reentrancy>>

\* Every function of the gateway that calls a target, with the registry and
\* the emergency stop changing in between (all in one block, so that ids stay
\* comparable).
NextInvoke ==
  \/ InvokeSubmit
  \/ Register
  \/ Deregister
  \/ ResolveRefused
  \/ EmergencyOn
  \/ EmergencyOff

SpecInvoke == Init /\ [][NextInvoke]_vars

\* The gateway with resolution by the original caller.
NextResolve ==
  \/ Submit
  \/ Register
  \/ OwnerOverride
  \/ UserResolve
  \/ SetFreezeDuration
  \/ Mine

SpecResolve == Init /\ [][NextResolve]_vars

\* ================================================================ claims
FrozenError == "Transaction frozen for security review"
NotOwnerError == "Ownable: caller is not the owner"

\* The outcome just observed is a submit that was refused as frozen.
FrozenReported == lastOp.op = "protectedCall" /\ lastOp.err = FrozenError

\* The freeze expiry announced for the frozen attempt in lastOp.
ReportedExpiry == lastOp.id.block + freezeDuration

\* This step is executeOwnerOverride by the owner, with the given action, on
\* the threat id of the frozen attempt just reported.
OverrideOfReported(action) ==
  /\ FrozenReported
  /\ lastOp'.op = "executeOwnerOverride"
  /\ lastOp'.id = lastOp.id
  /\ lastOp'.action = action
  /\ lastOp'.err # NotOwnerError

\* C1: a call attempt classified HIGH or above is never forwarded to the target
\* by protectedCall; the only other call to a target is the 'execute' branch of
\* executeOwnerOverride on a threat id that has a frozen transaction.
C1_HighRiskNeverForwarded ==
  /\ (lastOp.op = "protectedCall" /\ lastOp.level >= HIGH) => lastOp.calls = 0
  /\ (lastOp.calls > 0 /\ lastOp.op # "protectedCall") =>
        /\ lastOp.op = "executeOwnerOverride"
        /\ lastOp.action = "execute"
        /\ FrozenOf(lastOp.id).frozenAt > 0

C1_Witness ==
  /\ FrozenReported
  /\ lastOp.level >= HIGH
  /\ lastOp.calls = 0
  /\ protectedContracts[lastOp.id.target].isProtected

\* C2 (as claimed): every classified attempt whose target call would succeed
\* ends either forwarded exactly once with no frozen transaction, or refused as
\* frozen with exactly one stored ThreatDetection / FrozenTransaction pair and
\* no call to the target.
C2_ForwardXorFreezePair ==
  (lastOp.op = "protectedCall"
     /\ lastOp.err \notin {"Emergency stop is active", "Target not protected",
                           "Panic", "Execution failed"})
  => \/ /\ lastOp.err = ""
        /\ lastOp.calls = 1
        /\ FrozenOf(lastOp.id).frozenAt = 0
     \/ /\ lastOp.err = FrozenError
        /\ lastOp.calls = 0
        /\ ThreatOf(lastOp.id).level # NONE
        /\ FrozenOf(lastOp.id).frozenAt > 0

\* C3 (as claimed): after protectedCall fails as frozen, the ThreatDetection and
\* the FrozenTransaction of its threat id are stored, unresolved and unmitigated.
C3_FreezeSurvivesFailure ==
  FrozenReported =>
    /\ ThreatOf(lastOp.id).level >= HIGH
    /\ ~ThreatOf(lastOp.id).isMitigated
    /\ FrozenOf(lastOp.id).frozenAt > 0
    /\ ~FrozenOf(lastOp.id).executed
    /\ ~FrozenOf(lastOp.id).cancelled

\* C5 (as claimed): for the frozen attempt, executeOwnerOverride with 'execute'
\* or 'revert' is accepted at block = freeze expiry and fails with 'Freeze
\* period expired' at any later block.
C5_ExpiryBoundary ==
  [][\A action \in {"execute", "revert"} :
       OverrideOfReported(action) =>
         /\ blockNumber = ReportedExpiry => lastOp'.err = ""
         /\ blockNumber > ReportedExpiry =>
              (lastOp'.err = "Freeze period expired" /\ UNCHANGED storage)]_vars

C7_RevertCancels ==
  [][(OverrideOfReported("revert") /\ blockNumber <= ReportedExpiry) =>
       /\ lastOp'.err = ""
       /\ lastOp'.calls = 0
       /\ lastOp.id \in DOMAIN frozenTransactions'
       /\ frozenTransactions'[lastOp.id].cancelled
       /\ ~frozenTransactions'[lastOp.id].executed
       /\ lastOp.id \in DOMAIN threatDetections'
       /\ threatDetections'[lastOp.id].isMitigated
       /\ totalThreatsMitigated' = totalThreatsMitigated + 1]_vars

\* C8 (as claimed): executeOwnerOverride(threatId, 'execute') on the frozen
\* attempt within its window calls the original target exactly once with the
\* frozen payload and attached value.
C8_ExecuteReinvokes ==
  [][(OverrideOfReported("execute") /\ blockNumber <= ReportedExpiry) =>
       /\ lastOp'.err = ""
       /\ lastOp'.calls = 1
       /\ lastOp.id \in DOMAIN threatDetections'
       /\ threatDetections'[lastOp.id].targetContract = lastOp.id.target
       /\ threatDetections'[lastOp.id].originalCalldata = lastOp.id.data]_vars

\* C9 (as claimed): executeOwnerOverride(threatId, 'simulate') on the frozen
\* attempt within its window fails with 'Simulation requested' and changes no
\* storage.
C9_SimulateSignals ==
  [][(OverrideOfReported("simulate") /\ blockNumber <= ReportedExpiry) =>
       (lastOp'.err = "Simulation requested" /\ UNCHANGED storage)]_vars

\* C10 (as claimed): executeOwnerOverride by the owner fails as not frozen for a
\* threat id that was never frozen and with 'Freeze period expired' for a frozen
\* attempt past its window, for every action, leaving storage unchanged.
C10_OverrideFailures ==
  [][/\ (lastOp'.op = "executeOwnerOverride" /\ lastOp'.err # NotOwnerError
           /\ lastOp' # lastOp /\ ~FrozenReported
           /\ FrozenOf(lastOp'.id).frozenAt = 0) =>
          (lastOp'.err \in {"No threat found", "Transaction not frozen"}
             /\ UNCHANGED storage)
     /\ \A action \in Actions :
          (OverrideOfReported(action) /\ blockNumber > ReportedExpiry) =>
            (lastOp'.err = "Freeze period expired" /\ UNCHANGED storage)]_vars

\* C11 (as claimed): userResolveThreat on the frozen attempt within its window
\* is accepted from the attempt's sender and then acts as the owner override
\* does ('revert' cancels, 'execute' marks executed and calls the target once);
\* from any other caller it fails and leaves storage unchanged.
C11_SelfResolveByInitiator ==
  [][\A s \in Senders, action \in {"execute", "revert"} :
       (FrozenReported /\ blockNumber <= ReportedExpiry
          /\ userResolveThreat(s, lastOp.id, action, TRUE)) =>
         IF s = lastOp.id.sender
         THEN /\ lastOp'.err = ""
              /\ lastOp.id \in DOMAIN frozenTransactions'
              /\ frozenTransactions'[lastOp.id].cancelled = (action = "revert")
              /\ frozenTransactions'[lastOp.id].executed = (action = "execute")
              /\ totalThreatsMitigated' = totalThreatsMitigated + 1
         ELSE lastOp'.err # "" /\ UNCHANGED storage]_vars

\* This step is a protectedCall to a target that is not registered.
SubmitToUnprotected ==
  /\ blockNumber' = blockNumber
  /\ lastOp'.op = "protectedCall"
  /\ ~protectedContracts[lastOp'.id.target].isProtected

C13_DepositIsUnflagged ==
  [][(/\ blockNumber' = blockNumber
      /\ lastOp'.op = "protectedCall"
      /\ lastOp'.id.data = "deposit"
      /\ lastOp'.id.value > 0
      /\ lastOp'.id.sender \in EOAs
      /\ protectedContracts[lastOp'.id.target] = ContractProfile(TRUE, 3)
      /\ ~emergencyStop
      /\ lastOp'.err # "Execution failed") =>
       /\ lastOp'.err = ""
       /\ lastOp'.calls = 1
       /\ lastOp'.level = NONE
       /\ lastOp'.id \notin DOMAIN threatDetections'
       /\ totalThreatsDetected' = totalThreatsDetected]_vars

\* C14 (as claimed): with a running average deposit A > 0, a withdraw(amount)
\* call with value 0 from an externally owned account fails as frozen with a
\* HIGH / LARGE_WITHDRAWAL ThreatDetection when amount > 10 x A, and is not
\* frozen when amount <= 10 x A.
C14_LargeWithdrawalFrozen ==
  [][(/\ blockNumber' = blockNumber
      /\ lastOp'.op = "protectedCall"
      /\ Selector(lastOp'.id.data) = "2e1a7d4d"
      /\ lastOp'.id.value = 0
      /\ lastOp'.id.sender \in EOAs
      /\ TargetProtected(lastOp'.id.target)
      /\ ~emergencyStop
      /\ averageDepositAmount > 0) =>
       IF Amount(lastOp'.id.data) > LargeWithdrawalMultiplier * averageDepositAmount
       THEN /\ lastOp'.err = FrozenError
            /\ lastOp'.level = HIGH
            /\ lastOp'.id \in DOMAIN threatDetections'
            /\ threatDetections'[lastOp'.id].vulnType = "LARGE_WITHDRAWAL"
       ELSE lastOp'.err # FrozenError]_vars

\* The classification the fixed order assigns to each heuristic.
HeuristicTable ==
  << [level |-> HIGH,   vulnType |-> "REENTRANCY"],
     [level |-> HIGH,   vulnType |-> "FLASH_LOAN"],
     [level |-> MEDIUM, vulnType |-> "STATE_MANIPULATION"],
     [level |-> MEDIUM, vulnType |-> "UNEXPECTED_ETH_FLOW"],
     [level |-> LOW,    vulnType |-> "UNSAFE_CALL"],
     [level |-> HIGH,   vulnType |-> "ACCESS_CONTROL"],
     [level |-> LOW,    vulnType |-> "UNKNOWN"],
     [level |-> LOW,    vulnType |-> "UNKNOWN"] >>

\* Which heuristics match the attempt a, in the order of HeuristicTable.
HeuristicHits(a, origin) ==
  << _detectReentrancyPattern(a.data, a.sender),
     _detectFlashLoanPattern(a.sender, a.value, a.balanceLow, origin, a.gasLow),
     _detectStateManipulation(a.sender).hit,
     _detectUnexpectedETHFlow(a.data, a.value),
     _detectUnsafeCall(a.data),
     _detectAccessControlViolation(a.data),
     _detectHighFrequencyCalls(_detectStateManipulation(a.sender)).hit,
     a.gasPriceHigh >>

FirstMatch(hits) ==
  IF \E k \in 1..8 : hits[k]
  THEN HeuristicTable[CHOOSE k \in 1..8 : hits[k] /\ \A j \in 1..(k - 1) : ~hits[j]]
  ELSE [level |-> NONE, vulnType |-> "UNKNOWN"]

\* C15: the classification returned is that of the first heuristic matching in
\* the order reentrancy, flash loan, state manipulation, unexpected value flow,
\* unsafe call, access control, high frequency, gas price; a contract caller
\* with a low balance and value 0 is HIGH / REENTRANCY on a sensitive selector
\* and HIGH / FLASH_LOAN otherwise, and its protectedCall fails as frozen.
C15_FirstMatchWins ==
  [][/\ (classified' # classified /\ ~classified'.panic) =>
          LET a == classified'.input
              first == FirstMatch(HeuristicHits(a, CHOOSE o \in Origins(a.sender) : TRUE))
          IN /\ classified'.level = first.level
             /\ classified'.vulnType = first.vulnType
             /\ (a.sender \in Contracts /\ a.balanceLow /\ a.value = 0) =>
                  /\ classified'.level = HIGH
                  /\ classified'.vulnType =
                       (IF DataLength(a.data) >= 4 /\ Selector(a.data) \in vulnerableSigs
                        THEN "REENTRANCY" ELSE "FLASH_LOAN")
     /\ (/\ blockNumber' = blockNumber
         /\ lastOp'.op = "protectedCall"
         /\ lastOp'.id.sender \in Contracts
         /\ lastOp'.id.value = 0
         /\ TargetProtected(lastOp'.id.target)
         /\ ~emergencyStop) =>
          \A gasPriceHigh \in BOOLEAN, ok \in BOOLEAN :
            protectedCall(lastOp'.id.sender, lastOp'.id.target, lastOp'.id.data, 0, TRUE,
                          CHOOSE o \in Origins(lastOp'.id.sender) : TRUE,
                          FALSE, gasPriceHigh, ok) =>
              (lastOp'.err = FrozenError /\ lastOp'.calls = 0)]_vars

\* A low-balance contract calling a non-sensitive selector with value 0 was
\* classified as a flash loan and its protectedCall refused as frozen.
C15_Witness ==
  /\ classified.input.sender \in Contracts
  /\ classified.input.balanceLow
  /\ classified.input.value = 0
  /\ classified.input.data = "upgradeTo"
  /\ classified.vulnType = "FLASH_LOAN"
  /\ FrozenReported
  /\ lastOp.id.sender \in Contracts

C17_CompletedIsImmutable ==
  [][/\ \A threatId \in DOMAIN analysisRequests :
          requestAnalysis(ImmunityLayer, threatId, threatId.target, threatId.sender,
                          threatId.data) =>
            analysisRequests' = analysisRequests
     /\ \A threatId \in DOMAIN analysisRequests :
          analysisRequests[threatId].completed =>
            /\ threatId \in DOMAIN analysisRequests'
            /\ analysisRequests'[threatId].completed
            /\ analysisRequests'[threatId].aiAnalysis = analysisRequests[threatId].aiAnalysis
            /\ analysisRequests'[threatId].suggestedAction =
                 analysisRequests[threatId].suggestedAction]_vars

\* C18 (as claimed): after a call is refused as frozen the oracle holds an
\* open request for its threat id with the attempt's target, caller and
\* payload, and an accepted submitAnalysis is for a threat id that was requested.
C18_FreezeRequestsAnalysis ==
  /\ FrozenReported =>
       /\ lastOp.id \in DOMAIN analysisRequests
       /\ ~analysisRequests[lastOp.id].completed
       /\ analysisRequests[lastOp.id].targetContract = lastOp.id.target
       /\ analysisRequests[lastOp.id].caller = lastOp.id.sender
       /\ analysisRequests[lastOp.id].data = lastOp.id.data
  /\ (lastOp.op = "submitAnalysis" /\ lastOp.err = "") =>
       RequestOf(lastOp.id).timestamp > 0

\* The step was refused by onlyOwner and changed nothing.
RejectedNotOwner == lastOp'.err = NotOwnerError /\ UNCHANGED <<storage, oracle>>

C21_DeregisterDeactivates ==
  [][\A t \in Targets :
       /\ removeContractProtection(Owner, t) =>
            IF ~protectedContracts[t].isProtected
            THEN lastOp'.err = "Contract not protected" /\ UNCHANGED storage
            ELSE /\ lastOp'.err = ""
                 /\ protectedContracts'[t].protectionLevel = protectedContracts[t].protectionLevel
                 /\ ~isContractProtected(t)'
                 /\ getProtectionLevel(t)'.err = "Contract not protected"
       /\ \A l \in 1..5 :
            (addContractProtection(Owner, t, l)
               /\ ~protectedContracts[t].isProtected
               /\ protectedContracts[t].protectionLevel > 0) =>
              /\ isContractProtected(t)'
              /\ getProtectionLevel(t)' = [err |-> "", value |-> l]]_vars

\* The owner has just deregistered a target that had been registered: the
\* entry is inactive and still carries its level.
C21_Witness ==
  /\ lastOp.op = "removeContractProtection"
  /\ lastOp.err = ""
  /\ ~protectedContracts["bank"].isProtected
  /\ protectedContracts["bank"].protectionLevel > 0

\* The step is a protectedCall that went through to the target and back.
ForwardedStep ==
  /\ blockNumber' = blockNumber
  /\ lastOp'.op = "protectedCall"
  /\ lastOp'.err = ""

\* The call the target received is the sender's: same target, payload, value.
SentAsSubmitted ==
  /\ lastOp'.calls = 1
  /\ lastOp'.sent.to = lastOp'.id.target
  /\ lastOp'.sent.data = lastOp'.id.data
  /\ lastOp'.sent.value = lastOp'.id.value

\* C22: a protectedCall classified LOW or MEDIUM whose target call succeeds
\* stores one ThreatDetection with that level under its threat id and touches
\* no other, increments totalThreatsDetected by one, creates no
\* FrozenTransaction, calls the target once and returns the target's result.
C22_SoftMonitoring ==
  [][(ForwardedStep /\ lastOp'.level > NONE /\ lastOp'.level < HIGH) =>
       /\ lastOp'.id \in DOMAIN threatDetections'
       /\ threatDetections'[lastOp'.id].level = lastOp'.level
       /\ \A i \in DOMAIN threatDetections' \ {lastOp'.id} :
            i \in DOMAIN threatDetections /\ threatDetections'[i] = threatDetections[i]
       /\ totalThreatsDetected' = totalThreatsDetected + 1
       /\ frozenTransactions' = frozenTransactions
       /\ lastOp'.id \notin DOMAIN frozenTransactions'
       /\ SentAsSubmitted
       /\ lastOp'.ret = TargetResult]_vars

\* A LOW attempt has just been forwarded and recorded, after an earlier
\* monitored attempt.
C22_Witness ==
  /\ lastOp.op = "protectedCall"
  /\ lastOp.err = ""
  /\ lastOp.level = LOW
  /\ ThreatOf(lastOp.id).level = LOW
  /\ totalThreatsDetected >= 2
  /\ frozenTransactions = <<>>

\* C23: a protectedCall classified NONE calls the target once with the
\* submitted payload and value and returns the target's result; it stores no
\* ThreatDetection and no FrozenTransaction and leaves totalThreatsDetected,
\* totalThreatsMitigated and totalLossPrevented as they were.
C23_PassThrough ==
  [][(ForwardedStep /\ lastOp'.level = NONE) =>
       /\ SentAsSubmitted
       /\ lastOp'.ret = TargetResult
       /\ threatDetections' = threatDetections
       /\ frozenTransactions' = frozenTransactions
       /\ getStats' = getStats]_vars

\* An unflagged call carrying value has just been passed through.
C23_Witness ==
  /\ lastOp.op = "protectedCall"
  /\ lastOp.err = ""
  /\ lastOp.level = NONE
  /\ lastOp.id.value > 0
  /\ lastOp.sent.value = lastOp.id.value
  /\ lastOp.id \notin DOMAIN threatDetections

\* C24 (as claimed): when the target fails a call that protectedCall let
\* through, the error the sender sees is the target's own revert reason.
C24_TargetFailureSurfaced ==
  [][(/\ blockNumber' = blockNumber
      /\ lastOp'.op = "protectedCall"
      /\ lastOp'.calls = 1
      /\ lastOp'.err # "") =>
       lastOp'.err = TargetRevert]_vars

\* C25: totalThreatsDetected, totalThreatsMitigated and totalLossPrevented
\* never decrease in any step.
C25_CountersMonotone ==
  [][/\ totalThreatsDetected' >= totalThreatsDetected
     /\ totalThreatsMitigated' >= totalThreatsMitigated
     /\ totalLossPrevented' >= totalLossPrevented]_vars

\* The detection counter has grown, and a refused attempt has since been
\* rolled back without lowering it.
C25_Witness ==
  /\ totalThreatsDetected >= 2
  /\ lastOp.op = "protectedCall"
  /\ lastOp.err = FrozenError

\* The fields of a ThreatDetection that describe the attempt and its finding.
Finding(threat) ==
  <<threat.suspiciousCaller, threat.targetContract, threat.originalCalldata, threat.level,
    threat.vulnType, threat.reason, threat.blockNumber, threat.freezeUntilBlock>>

Mitigation(threat) == <<threat.isMitigated, threat.mitigationResult>>

\* C26 (as claimed): a stored ThreatDetection is never removed, its caller,
\* target, payload, level, vulnerability type, reason and freeze expiry never
\* change, and isMitigated and mitigationResult change only in a step of
\* executeOwnerOverride or userResolveThreat.
C26_RecordImmutable ==
  [][\A id \in DOMAIN threatDetections :
       /\ id \in DOMAIN threatDetections'
       /\ Finding(threatDetections'[id]) = Finding(threatDetections[id])
       /\ Mitigation(threatDetections'[id]) # Mitigation(threatDetections[id])
            => lastOp'.op \in {"executeOwnerOverride", "userResolveThreat"}]_vars

\* C27 (as claimed): after a deposit of value V submitted through
\* protectedCall has been forwarded, the bank's balance of the original caller
\* has grown by V and the gateway's own balance in the bank has not.
C27_DepositCreditsCaller ==
  [][(ForwardedStep /\ lastOp'.id.data = "deposit") =>
       /\ balances'[lastOp'.id.sender] = balances[lastOp'.id.sender] + lastOp'.id.value
       /\ balances'[ImmunityLayer] = balances[ImmunityLayer]]_vars

\* C28 (as claimed): when executeOwnerOverride(threatId, 'execute') on the
\* frozen attempt within its window re-invokes the target and the target
\* fails, the owner gets an error, and the FrozenTransaction is still there
\* with executed = cancelled = false, the ThreatDetection is not mitigated and
\* totalThreatsMitigated is unchanged.
C28_ExecuteFailureSurfaced ==
  [][(/\ FrozenReported
      /\ blockNumber <= ReportedExpiry
      /\ executeOwnerOverride(Owner, lastOp.id, "execute", FALSE)) =>
       /\ lastOp'.calls = 1
       /\ lastOp'.err # ""
       /\ lastOp.id \in DOMAIN frozenTransactions'
       /\ ~frozenTransactions'[lastOp.id].executed
       /\ ~frozenTransactions'[lastOp.id].cancelled
       /\ ~ThreatOf(lastOp.id).isMitigated'
       /\ totalThreatsMitigated' = totalThreatsMitigated]_vars

\* C29 (as claimed): two attempts of one caller in one block never find the
\* same value in that caller's counter.
C29_DistinctCounterReads ==
  [][(/\ blockNumber' = blockNumber
      /\ lastOp'.op = "protectedCall"
      /\ counterRead # NoRead
      /\ counterRead' # NoRead
      /\ counterRead'.sender = counterRead.sender
      /\ counterRead'.block = counterRead.block) =>
       counterRead'.value # counterRead.value]_vars

\* C30: a protectedCall made while another protectedCall is inside its target
\* call fails with 'ReentrancyGuard: reentrant call', makes no call to a
\* target and leaves the records and counters of the gateway as they were.
C30_NestedCallRejected ==
  [][(_status = "ENTERED" /\ _status' = "ENTERED" /\ lastOp'.op = "protectedCall") =>
       /\ lastOp'.err = "ReentrancyGuard: reentrant call"
       /\ lastOp'.calls = 0
       /\ UNCHANGED storage]_vars

\* A nested call has just been refused while the outer call, made after an
\* earlier recorded attempt, is still under way.
C30_Witness ==
  /\ _status = "ENTERED"
  /\ pending.sender = "user"
  /\ lastOp.op = "protectedCall"
  /\ lastOp.id.sender = "attacker"
  /\ lastOp.err = "ReentrancyGuard: reentrant call"
  /\ threatDetections # <<>>

\* This step is a protectedCall of attempt a to a protected target.
CountedSubmit(a) ==
  /\ submitsInBlock' # submitsInBlock
  /\ classified'.input = a

\* Neither the reentrancy nor the flash-loan detector answers for a.
NoEarlierHeuristic(a) ==
  /\ ~_detectReentrancyPattern(a.data, a.sender)
  /\ \A origin \in Origins(a.sender) :
       ~_detectFlashLoanPattern(a.sender, a.value, a.balanceLow, origin, a.gasLow)

\* C31: among one caller's submits within one block that match no earlier
\* heuristic, an attempt is classified MEDIUM / STATE_MANIPULATION exactly when
\* the number of that caller's calls in the block, this one included, is
\* beyond suspiciousCallThreshold; and the caller's counter restarts at 1 on
\* the caller's first call in a new block.
C31_StateManipulationBeyondThreshold ==
  [][\A a \in CounterAttempts :
       (CountedSubmit(a) /\ NoEarlierHeuristic(a)) =>
         /\ (classified'.level = MEDIUM /\ classified'.vulnType = "STATE_MANIPULATION")
              <=> (submitsInBlock'[a.sender].n > suspiciousCallThreshold)
         /\ (submitsInBlock'[a.sender].n = 1) => (suspiciousAddressCount'[a.sender] = 1)
    ]_vars

\* The caller's protectedCalls to protected targets in the current block.
SubmitsThisBlock(caller) ==
  IF submitsInBlock[caller].block = blockNumber THEN submitsInBlock[caller].n ELSE 0

\* C34: after any sequence of submits, for each caller whose last recorded
\* block is the current one, suspiciousAddressCount equals the number of
\* submits that caller has made to protected targets in that block (so one
\* submit increases it by exactly 1).
C34_CounterCountsSubmits ==
  \A caller \in Senders :
    lastInteractionBlock[caller] = blockNumber =>
      suspiciousAddressCount[caller] = SubmitsThisBlock(caller)

\* C32: the FrozenTransaction of a call just refused as frozen has freezeUntil
\* equal to the block of the freeze plus the freezeDuration in force (within
\* 1..MaxFreezeDuration), equal to freezeUntilBlock of its ThreatDetection.
\* (That no later operation changes it is a statement about a record that
\* has first to exist.)
C32_ExpiryFixedAtFreeze ==
  FrozenReported =>
    /\ freezeDuration >= 1 /\ freezeDuration <= MaxFreezeDuration
    /\ FrozenOf(lastOp.id).freezeUntil = ReportedExpiry
    /\ ThreatOf(lastOp.id).freezeUntilBlock = FrozenOf(lastOp.id).freezeUntil

\* C33: a call whose selector is in the access-control selector set is never
\* forwarded by protectedCall, whatever its value and however many calls its
\* caller has made in the block: every such call to a protected target is
\* refused as frozen.
C33_AccessControlNeverForwarded ==
  [][\A a \in CounterAttempts :
       (CountedSubmit(a) /\ _detectAccessControlViolation(a.data)) =>
         (lastOp'.calls = 0 /\ lastOp'.err = FrozenError)
    ]_vars

\* This step is executeOwnerOverride, past onlyOwner, with 'execute', on the
\* id of an attempt that was refused as frozen and whose target has since
\* been deregistered.
ResolutionAfterDeregister ==
  /\ lastOp'.op = "executeOwnerOverride"
  /\ lastOp'.action = "execute"
  /\ lastOp'.id \in RefusedIds
  /\ lastOp'.err # NotOwnerError
  /\ ~TargetProtected(lastOp'.id.target)

EmergencyError == "Emergency stop is active"

Resolvable(threatId) == OverrideGuard(threatId) = ""

\* C37: isFrozen as getThreatDetails reports it is true exactly when the threat
\* has a FrozenTransaction that is unresolved and that executeOwnerOverride
\* still accepts (block.number <= freezeUntil); so it is true for the attempt
\* just refused as frozen, and false once executed, cancelled or expired.
C37_IsFrozenAgreesWithResolution ==
  /\ \A threatId \in KnownIds :
       getThreatDetails(threatId).isFrozen <=> Resolvable(threatId)
  /\ FrozenReported => getThreatDetails(lastOp.id).isFrozen

\* The FrozenTransaction of this id is executed or cancelled.
Processed(threatId) ==
  /\ threatId \in DOMAIN frozenTransactions
  /\ (frozenTransactions[threatId].executed \/ frozenTransactions[threatId].cancelled)

\* C38: in every reachable state a ThreatDetection has isMitigated only if it
\* has a FrozenTransaction that is executed or cancelled, totalThreatsMitigated
\* is the number of executed or cancelled FrozenTransactions, and
\* totalThreatsMitigated <= totalThreatsDetected.
C38_MitigationBookkeeping ==
  /\ \A threatId \in DOMAIN threatDetections :
       threatDetections[threatId].isMitigated => Processed(threatId)
  /\ totalThreatsMitigated = Cardinality({threatId \in DOMAIN frozenTransactions : Processed(threatId)})
  /\ totalThreatsMitigated <= totalThreatsDetected
====
